---- MODULE Spec2Model ----
(***************************************************************************)
(* The serialized-mesh loader (SerializedMesh::SerializedMesh and its      *)
(* helpers read_helper / advance_helper) as a state machine.  One run of   *)
(* the machine is one construction of a SerializedMesh: the inputs (plugin *)
(* properties, the container file, the ScalarFloat of the variant) are     *)
(* chosen in Init, and each action is a consecutive block of statements of *)
(* the constructor.                                                        *)
(***************************************************************************)
EXTENDS Integers, Sequences, FiniteSets, TLC

(* ------------------------------ bounds -------------------------------- *)
\* largest number of sub-meshes in a container
MaxMeshes == 2
\* largest length (bytes) of a compressed body in the directory scenarios
MaxCLen == 2
\* largest low 32-bit part of a declared vertex count
MaxVerts == 2
\* largest declared face count
MaxFaces == 1
\* longest stored mesh name
MaxName == 1

(* -------------------------- program constants ------------------------- *)
MTS_FILEFORMAT_HEADER == 1052
MTS_FILEFORMAT_VERSION_V3 == 3
MTS_FILEFORMAT_VERSION_V4 == 4

\* enum class TriMeshFlags
HasNormals == 1
HasTexcoords == 2
HasColors == 8
FaceNormals == 16
SinglePrecision == 4096
DoublePrecision == 8192

\* sizeof(short), sizeof(uint32_t), sizeof(uint64_t) == sizeof(size_t),
\* sizeof(float), sizeof(double), sizeof(ScalarIndex)
SizeofShort == 2
SizeofU32 == 4
SizeofU64 == 8
SizeofFloat == 4
SizeofDouble == 8
SizeofScalarIndex == 4

\* has_flag(uint32_t flags, TriMeshFlags f): (flags & f) != 0, f a single bit
has_flag(flags, f) == (flags \div f) % 2 = 1

(* ------------------- 64-bit quantities: hi * 2^32 + lo ---------------- *)
\* A uint64 is kept as its two 32-bit halves; the low halves used here are
\* small, so sums and products by small factors never carry.
U64(h, l) == [hi |-> h, lo |-> l]
U64Leq(a, b) == a.hi < b.hi \/ (a.hi = b.hi /\ a.lo <= b.lo)
U64Add(a, b) == [hi |-> a.hi + b.hi, lo |-> a.lo + b.lo]
U64Mul(a, c) == [hi |-> a.hi * c, lo |-> a.lo * c]

\* values read from the file beyond this one are clamped to it (it is far
\* larger than any container or body here, so a seek or a read at such a
\* value fails as it does at the true value)
Saturated == 2^20
Clamp(v) == IF v < 0 \/ v > Saturated THEN Saturated ELSE v

(* ------------------------ little-endian encoding ---------------------- *)
RECURSIVE LE(_, _)
\* the n little-endian bytes of v (the writer's side of stream->read<T>)
LE(v, n) == IF n = 0 THEN <<>> ELSE <<v % 256>> \o LE(v \div 256, n - 1)

RECURSIVE FromLE(_)
\* stream->read<T>() with byte order ELittleEndian, on the bytes of a T
FromLE(bs) ==
    IF bs = <<>> THEN 0
    ELSE LET r == FromLE(Tail(bs))
         IN  IF r >= Saturated \div 256 THEN Saturated
             ELSE Clamp(Head(bs) + 256 * r)

LE64(u) == LE(u.lo, 4) \o LE(u.hi, 4)
FromLE64(bs) == U64(FromLE(SubSeq(bs, 5, 8)), FromLE(SubSeq(bs, 1, 4)))

RECURSIVE Concat(_)
Concat(ss) == IF ss = <<>> THEN <<>> ELSE Head(ss) \o Concat(Tail(ss))

(* ----------------------------- the container -------------------------- *)
\* A container is [dir, recs]: dir is the directory encoding (3: 32-bit
\* entries, 4: 64-bit entries), recs the sub-mesh records
\* [magic, version, clen, body]; clen is the length of the compressed body.
\* A body is [flags, name, vertex_count, face_count] (the arrays' values are
\* identified by group and element index, see ElementAt).

\* width of a stored float: flag 0x2000 double, else single
StoredFloatBytes(flags) ==
    IF has_flag(flags, DoublePrecision) THEN SizeofDouble ELSE SizeofFloat

\* width of a stored index: uint64 when the vertex count exceeds 0xFFFFFFFF
StoredIndexBytes(body) ==
    IF body.vertex_count.hi > 0 THEN SizeofU64 ELSE SizeofU32

\* the name string is part of the body from version 0x0004 on
StoresName(version) == version # MTS_FILEFORMAT_VERSION_V3

\* the bytes of the decompressed body before the arrays
BodyHeaderBytes(rec) ==
    LE(rec.body.flags, 4)
    \o (IF StoresName(rec.version) THEN rec.body.name \o <<0>> ELSE <<>>)
    \o LE64(rec.body.vertex_count) \o LE64(rec.body.face_count)

\* the arrays of the body in file order: <<group, dimension, scalar width>>
BodyArrays(body) ==
    LET w == StoredFloatBytes(body.flags) IN
    <<<<"pos", 3, w>>>>
    \o (IF has_flag(body.flags, HasNormals) THEN <<<<"nrm", 3, w>>>> ELSE <<>>)
    \o (IF has_flag(body.flags, HasTexcoords) THEN <<<<"tex", 2, w>>>> ELSE <<>>)
    \o (IF has_flag(body.flags, HasColors) THEN <<<<"col", 3, w>>>> ELSE <<>>)

RECURSIVE Segments(_, _, _)
\* the byte ranges [start, end) of the arrays, starting at byte `at`
Segments(body, arrays, at) ==
    IF arrays = <<>>
    THEN <<[g |-> "face", w |-> StoredIndexBytes(body), start |-> at,
            end |-> U64Add(at, U64Mul(body.face_count,
                                      3 * StoredIndexBytes(body)))]>>
    ELSE LET a == Head(arrays)
             e == U64Add(at, U64Mul(body.vertex_count, a[2] * a[3]))
         IN  <<[g |-> a[1], w |-> a[3], start |-> at, end |-> e]>>
             \o Segments(body, Tail(arrays), e)

BodySegments(rec) ==
    Segments(rec.body, BodyArrays(rec.body), U64(0, Len(BodyHeaderBytes(rec))))

\* size of the decompressed body as laid out by the format description
BodySize(rec) == LET s == BodySegments(rec) IN s[Len(s)].end

\* the scalar stored at byte b of the decompressed body, read with width w:
\* element idx of array g, or junk when b is not the start of an element of
\* that width
ElementAt(rec, b, w) ==
    LET s == BodySegments(rec)
        in == {j \in 1..Len(s) : U64Leq(s[j].start, U64(0, b))
                                 /\ ~U64Leq(s[j].end, U64(0, b))}
    IN  IF in = {} THEN [g |-> "junk", idx |-> 0]
        ELSE LET j == CHOOSE k \in in : TRUE
                 d == b - s[j].start.lo
             IN  IF s[j].w = w /\ d % w = 0
                 THEN [g |-> s[j].g, idx |-> d \div w]
                 ELSE [g |-> "junk", idx |-> 0]

\* a byte of the decompressed body read as an integer: the header bytes are
\* known, array data is opaque (0xFF)
BodyByte(rec, b) ==
    LET h == BodyHeaderBytes(rec) IN IF b < Len(h) THEN h[b + 1] ELSE 255

\* offset of record k (0-based) in the container
RECURSIVE RecordStart(_, _)
RecordStart(file, k) ==
    IF k = 0 THEN 0
    ELSE RecordStart(file, k - 1) + 2 * SizeofShort + file.recs[k].clen

\* the compressed bytes of a record (opaque zlib data, 0x78 first)
CompressedBytes(rec) == [j \in 1..rec.clen |-> IF j = 1 THEN 120 ELSE 218]

RecordBytes(rec) ==
    LE(rec.magic, SizeofShort) \o LE(rec.version, SizeofShort)
    \o CompressedBytes(rec)

\* width of a directory entry: uint64 in version 4, uint32 in version 3
EntryBytes(dir) == IF dir = MTS_FILEFORMAT_VERSION_V4 THEN SizeofU64 ELSE SizeofU32

\* end-of-file dictionary: the offset of every record, then their number
DirectoryBytes(file) ==
    Concat([k \in 1..Len(file.recs) |->
               LE(RecordStart(file, k - 1), EntryBytes(file.dir))])
    \o LE(Len(file.recs), SizeofU32)

FileBytes(file) ==
    Concat([k \in 1..Len(file.recs) |-> RecordBytes(file.recs[k])])
    \o DirectoryBytes(file)

(* ------------------------- external collaborators --------------------- *)
\* FileStream::size()
FileSize(file) == Len(FileBytes(file))

\* FileStream::read of n bytes at position p succeeds iff they exist
CanRead(file, p, n) == p >= 0 /\ p + n <= FileSize(file)
BytesAt(file, p, n) == SubSeq(FileBytes(file), p + 1, p + n)

\* ZStream over a stream positioned at p: the records whose compressed body
\* starts there (none: the data is no zlib stream and the first read fails)
ZSource(file, p) ==
    {k \in 1..Len(file.recs) : RecordStart(file, k - 1) + 2 * SizeofShort = p}

\* ZStream::read of n bytes at decompressed position z succeeds iff the
\* decompressed body has them
CanZRead(rec, z, n) == U64Leq(U64(0, z + n), BodySize(rec))
ZBytesAt(rec, z, n) == [j \in 1..n |-> BodyByte(rec, z + j - 1)]

\* Struct::append / Struct::offset / Struct::size for fields of one type
StructSize(s) == IF s = <<>> THEN 0 ELSE s[Len(s)].offset + s[Len(s)].size
StructAppend(s, name, w) ==
    Append(s, [name |-> name, offset |-> StructSize(s), size |-> w])
StructHas(s, name) == \E j \in 1..Len(s) : s[j].name = name
StructOffset(s, name) == s[CHOOSE j \in 1..Len(s) : s[j].name = name].offset

RECURSIVE AppendAll(_, _, _)
\* for (auto name : names) s->append(name, type)
AppendAll(s, names, w) ==
    IF names = <<>> THEN s
    ELSE AppendAll(StructAppend(s, Head(names), w), Tail(names), w)

(* --------------------------------- state ------------------------------ *)
VARIABLES
    props,              \* [file_exists, shape_index, face_normals]
    file,               \* the container the filename resolves to
    scalar_float,       \* sizeof(ScalarFloat) of the variant
    pc,                 \* position in the constructor
    error,              \* the failure thrown, "" if none
    ops,                \* file-system and stream operations so far
    pos,                \* position of the FileStream
    zstream,            \* [installed, start]: the ZStream and where it began
    zpos,               \* decompressed bytes consumed
    format, version,    \* locals of the constructor
    count, flags, vertex_count, face_count,
    m_name, m_disable_vertex_normals,
    m_vertex_struct, m_face_struct,
    m_normal_offset, m_texcoord_offset, m_color_offset,
    m_vertex_size, m_vertex_count, m_face_size, m_face_count,
    vertices_len, faces_len,    \* bytes allocated for m_vertices / m_faces
    m_vertices, m_faces,        \* byte address of a scalar -> its value
    array_pos,          \* zpos at which the read of each array began
    recomputed          \* calls of recompute_vertex_normals()

vars == <<props, file, scalar_float, pc, error, ops, pos, zstream, zpos,
          format, version, count, flags, vertex_count, face_count,
          m_name, m_disable_vertex_normals, m_vertex_struct, m_face_struct,
          m_normal_offset, m_texcoord_offset, m_color_offset,
          m_vertex_size, m_vertex_count, m_face_size, m_face_count,
          vertices_len, faces_len, m_vertices, m_faces, array_pos, recomputed>>

inputs == <<props, file, scalar_float, m_disable_vertex_normals>>
io == <<ops, pos, zstream, zpos>>
header == <<format, version, count>>
body_header == <<flags, vertex_count, face_count>>
layout == <<m_vertex_struct, m_face_struct, m_normal_offset, m_texcoord_offset,
            m_color_offset, m_vertex_size, m_vertex_count, m_face_size,
            m_face_count, vertices_len, faces_len>>
buffers == <<m_vertices, m_faces>>

(* ------------------------------ the inputs ---------------------------- *)
Bit(b, f) == IF b THEN f ELSE 0

\* flag words a writer produces: any optional arrays, one precision bit
FlagWords ==
    {Bit(n, HasNormals) + Bit(t, HasTexcoords) + Bit(c, HasColors)
       + Bit(f, FaceNormals) + Bit(d, DoublePrecision)
       + Bit(~d, SinglePrecision) : n \in BOOLEAN, t \in BOOLEAN,
                                     c \in BOOLEAN, f \in BOOLEAN,
                                     d \in BOOLEAN}

\* the high 32-bit words of the declared vertex counts: counts that fit
\* ScalarSize and counts that do not
HighWords == {0, 1}

Names == UNION {[1..n -> {97}] : n \in 0..MaxName}

Bodies ==
    [flags : FlagWords, name : Names,
     vertex_count : {U64(h, l) : h \in HighWords, l \in 0..MaxVerts},
     face_count : {U64(0, l) : l \in 0..MaxFaces}]

\* the body used where the scenario is about the directory and the headers
PlainBody ==
    [flags |-> SinglePrecision, name |-> <<>>,
     vertex_count |-> U64(0, 1), face_count |-> U64(0, 1)]

\* record headers: well formed in either version, a wrong magic, a version
\* that is not supported
Headers ==
    {<<MTS_FILEFORMAT_HEADER, MTS_FILEFORMAT_VERSION_V3>>,
     <<MTS_FILEFORMAT_HEADER, MTS_FILEFORMAT_VERSION_V4>>,
     <<MTS_FILEFORMAT_HEADER + 1, MTS_FILEFORMAT_VERSION_V4>>,
     <<MTS_FILEFORMAT_HEADER, MTS_FILEFORMAT_VERSION_V4 + 1>>}

Versions == {MTS_FILEFORMAT_VERSION_V3, MTS_FILEFORMAT_VERSION_V4}

\* the directory encoding a writer of version v uses
DirectoryOf(v) ==
    IF v = MTS_FILEFORMAT_VERSION_V3 THEN MTS_FILEFORMAT_VERSION_V3
    ELSE MTS_FILEFORMAT_VERSION_V4

\* containers of 1..MaxMeshes records with any headers, the directory
\* encoded as the first record's version has it, and bodies of one
\* compressed length
DirectoryFiles ==
    {[dir |-> DirectoryOf(h[1][2]),
      recs |-> [k \in 1..Len(h) |-> [magic |-> h[k][1], version |-> h[k][2],
                                     clen |-> c, body |-> PlainBody]]] :
        c \in 1..MaxCLen,
        h \in UNION {[1..m -> Headers] : m \in 1..MaxMeshes}}

\* a container is well formed when every record has the format magic and
\* the version of the directory encoding
WellFormed(f) ==
    /\ f.dir \in Versions
    /\ \A k \in 1..Len(f.recs) :
          /\ f.recs[k].magic = MTS_FILEFORMAT_HEADER
          /\ f.recs[k].version = f.dir

\* well-formed containers of one record with any body
BodyFilesOf(v) ==
    {[dir |-> v,
      recs |-> <<[magic |-> MTS_FILEFORMAT_HEADER, version |-> v,
                  clen |-> 1, body |-> b]>>] :
        b \in {x \in Bodies : StoresName(v) \/ x.name = <<>>}}

BodyFiles == UNION {BodyFilesOf(v) : v \in Versions}

NoStruct == <<>>
NoBuffer == << >>
NoArrays == [g \in {"pos", "nrm", "tex", "col", "face"} |-> -1]

InitState ==
    /\ pc = "start" /\ error = "" /\ ops = <<>> /\ pos = 0
    /\ zstream = [installed |-> FALSE, start |-> 0] /\ zpos = 0
    /\ format = 0 /\ version = 0 /\ count = 0 /\ flags = 0
    /\ vertex_count = U64(0, 0) /\ face_count = U64(0, 0)
    /\ m_name = [src |-> "none", chars |-> <<>>]
    /\ m_vertex_struct = NoStruct /\ m_face_struct = NoStruct
    /\ m_normal_offset = 0 /\ m_texcoord_offset = 0 /\ m_color_offset = 0
    /\ m_vertex_size = 0 /\ m_vertex_count = 0
    /\ m_face_size = 0 /\ m_face_count = 0
    /\ vertices_len = 0 /\ faces_len = 0
    /\ m_vertices = NoBuffer /\ m_faces = NoBuffer
    /\ array_pos = NoArrays /\ recomputed = 0

\* Mesh(props) has run: m_disable_vertex_normals is the face_normals
\* parameter.  Either the scenario varies the container and the requested
\* index, or it varies the body of a one-record container.
Init ==
    /\ InitState
    /\ \/ /\ file \in DirectoryFiles
          /\ props \in [file_exists : BOOLEAN,
                        shape_index : -1..(MaxMeshes + 1),
                        face_normals : {FALSE}]
          /\ scalar_float = SizeofFloat
       \/ /\ file \in BodyFiles
          /\ props \in [file_exists : {TRUE}, shape_index : {0},
                        face_normals : BOOLEAN]
          /\ scalar_float \in {SizeofFloat, SizeofDouble}
    /\ m_disable_vertex_normals = props.face_normals

(* ------------------------------ the loader ---------------------------- *)
\* fail(descr): Throw
Fail(kind) == pc' = "failed" /\ error' = kind

\* the record whose body the ZStream inflates
ZRec == file.recs[CHOOSE k \in ZSource(file, zstream.start) : TRUE]

\* lines 181-187: resolve the filename, fail when the file does not exist
Resolve ==
    /\ pc = "start"
    /\ ops' = ops \o <<"resolve", "exists">>
    /\ m_name' = [src |-> "filename", chars |-> <<>>]
    /\ IF ~props.file_exists THEN Fail("NotFound")
       ELSE pc' = "index" /\ error' = error
    /\ UNCHANGED <<inputs, pos, zstream, zpos, header, body_header, layout,
                   buffers, array_pos, recomputed>>

\* NegativeIndex that lets -1 through
NegativeIndex_OffByOne(shape_index) == shape_index < -1

\* line 194: the test on shape_index
NegativeIndex(shape_index) == shape_index < 0

\* lines 189-197: read to_world and shape_index, reject a negative index
CheckIndex ==
    /\ pc = "index"
    /\ IF NegativeIndex(props.shape_index)
       THEN Fail("NegativeIndex") /\ m_name' = m_name
       ELSE /\ pc' = "open" /\ error' = error
            /\ m_name' = [src |-> "filename@index", chars |-> <<>>]
    /\ UNCHANGED <<inputs, io, header, body_header, layout, buffers,
                   array_pos, recomputed>>

\* line 207: the test on the format identifier
BadFormat(fmt) == fmt # MTS_FILEFORMAT_HEADER

\* BadVersion that rejects only the versions older than 3
BadVersion_OnlyOlder(v) == v < MTS_FILEFORMAT_VERSION_V3

\* lines 210-211: the test on the version identifier
BadVersion(v) ==
    v # MTS_FILEFORMAT_VERSION_V3 /\ v # MTS_FILEFORMAT_VERSION_V4

\* lines 199-212: open the file, read and validate format and version
OpenAndReadHeader ==
    /\ pc = "open"
    /\ ops' = ops \o <<"open", "read", "read">>
    /\ IF ~CanRead(file, 0, 2 * SizeofShort)
       THEN Fail("IOError") /\ UNCHANGED <<pos, format, version>>
       ELSE /\ format' = FromLE(BytesAt(file, 0, SizeofShort))
            /\ version' = FromLE(BytesAt(file, SizeofShort, SizeofShort))
            /\ pos' = 2 * SizeofShort
            /\ IF BadFormat(format') THEN Fail("BadFormat")
               ELSE IF BadVersion(version') THEN Fail("UnsupportedVersion")
               ELSE /\ error' = error
                    /\ pc' = IF props.shape_index # 0 THEN "directory"
                             ELSE "zstream"
    /\ UNCHANGED <<inputs, zstream, zpos, count, body_header, m_name, layout,
                   buffers, array_pos, recomputed>>

\* line 224: the index test of the directory lookup
IndexOutOfRange(shape_index, n) == shape_index > n

\* lines 214-227: read the number of meshes at the end of the file
ReadDirectoryCount ==
    /\ pc = "directory"
    /\ ops' = ops \o <<"size", "seek", "read">>
    /\ LET file_size == FileSize(file)
           at == Clamp(file_size - SizeofU32)
       IN  IF ~CanRead(file, at, SizeofU32)
           THEN Fail("IOError") /\ pos' = at /\ count' = count
           ELSE /\ count' = FromLE(BytesAt(file, at, SizeofU32))
                /\ pos' = at + SizeofU32
                /\ IF IndexOutOfRange(props.shape_index, count')
                   THEN Fail("OutOfRange")
                   ELSE pc' = "entry" /\ error' = error
    /\ UNCHANGED <<inputs, zstream, zpos, format, version, body_header,
                   m_name, layout, buffers, array_pos, recomputed>>

\* EntryPosition with the legacy stride taken like the version-4 one: the
\* trailing count is not stepped over
EntryPosition_LegacyStrideShort(file_size, n, shape_index, v) ==
    IF v = MTS_FILEFORMAT_VERSION_V4
    THEN Clamp(file_size - SizeofU64 * (n - shape_index) - SizeofU32)
    ELSE Clamp(file_size - SizeofU32 * (n - shape_index))

\* lines 231-233 and 239-240: where the entry of shape_index is sought
EntryPosition(file_size, n, shape_index, v) ==
    IF v = MTS_FILEFORMAT_VERSION_V4
    THEN Clamp(file_size - SizeofU64 * (n - shape_index) - SizeofU32)
    ELSE Clamp(file_size - SizeofU32 * (n - shape_index + 1))

\* lines 229-245: seek to the directory entry, read the offset, seek to the
\* record and skip its header
SeekToEntry ==
    /\ pc = "entry"
    /\ LET at == EntryPosition(FileSize(file), count, props.shape_index, version)
           w == IF version = MTS_FILEFORMAT_VERSION_V4 THEN SizeofU64
                ELSE SizeofU32
       IN  IF ~CanRead(file, at, w)
           THEN /\ Fail("IOError") /\ pos' = at
                /\ ops' = ops \o <<"seek:entry", "read">>
           ELSE LET offset == Clamp(FromLE(BytesAt(file, at, w)))
                IN  /\ pos' = offset + 2 * SizeofShort
                    /\ ops' = ops \o <<"seek:entry", "read", "seek", "skip">>
                    /\ pc' = "zstream" /\ error' = error
    /\ UNCHANGED <<inputs, zstream, zpos, header, body_header, m_name,
                   layout, buffers, array_pos, recomputed>>

\* lines 248-249: wrap the stream in a ZStream at the current position
InstallFilter ==
    /\ pc = "zstream"
    /\ zstream' = [installed |-> TRUE, start |-> pos]
    /\ zpos' = 0
    /\ ops' = Append(ops, "zstream")
    /\ pc' = "body"
    /\ UNCHANGED <<inputs, error, pos, header, body_header, m_name, layout,
                   buffers, array_pos, recomputed>>

RECURSIVE NameEnd(_, _)
\* lines 256-261: the position of the terminating zero read at or after z,
\* -1 when the body ends first
NameEnd(rec, z) ==
    IF z >= Len(BodyHeaderBytes(rec)) \/ ~CanZRead(rec, z, 1) THEN -1
    ELSE IF BodyByte(rec, z) = 0 THEN z
    ELSE NameEnd(rec, z + 1)

\* line 253: the name is read when the version read from the file is 4
ReadsName(v) == v = MTS_FILEFORMAT_VERSION_V4

\* lines 251-266 on the body of rec: flags, name, vertex and face count
ParseBodyHeader(rec, v) ==
    LET e == IF ReadsName(v) THEN NameEnd(rec, SizeofU32) ELSE SizeofU32 - 1
        z == e + 1
    IN  [ok |-> /\ CanZRead(rec, 0, SizeofU32)
                /\ e >= 0
                /\ CanZRead(rec, z, 2 * SizeofU64),
         flags |-> FromLE(ZBytesAt(rec, 0, SizeofU32)),
         name |-> IF ReadsName(v) /\ e >= SizeofU32
                  THEN ZBytesAt(rec, SizeofU32, e - SizeofU32) ELSE <<>>,
         vertex_count |-> FromLE64(ZBytesAt(rec, z, SizeofU64)),
         face_count |-> FromLE64(ZBytesAt(rec, z + SizeofU64, SizeofU64)),
         zpos |-> z + 2 * SizeofU64]

\* lines 251-266: read the flags, the name and the counts from the ZStream
ReadBodyHeader ==
    /\ pc = "body"
    /\ ops' = Append(ops, "zread")
    /\ IF ZSource(file, zstream.start) = {}
       THEN Fail("IOError") /\ UNCHANGED <<zpos, body_header, m_name>>
       ELSE LET h == ParseBodyHeader(ZRec, version)
            IN  IF ~h.ok
                THEN Fail("IOError") /\ UNCHANGED <<zpos, body_header, m_name>>
                ELSE /\ flags' = h.flags
                     /\ vertex_count' = h.vertex_count
                     /\ face_count' = h.face_count
                     /\ zpos' = h.zpos
                     /\ m_name' = IF ReadsName(version)
                                  THEN [src |-> "stored", chars |-> h.name]
                                  ELSE m_name
                     /\ pc' = "layout" /\ error' = error
    /\ UNCHANGED <<inputs, pos, zstream, header, layout, buffers, array_pos,
                   recomputed>>

\* VertexStruct that reserves the normal fields only when the file has
\* normals
VertexStruct_NormalsFromFile(f, disable, fb) ==
    LET s1 == AppendAll(<<>>, <<"x", "y", "z">>, fb)
        s2 == IF ~disable /\ has_flag(f, HasNormals)
              THEN AppendAll(s1, <<"nx", "ny", "nz">>, fb) ELSE s1
        s3 == IF has_flag(f, HasTexcoords)
              THEN AppendAll(s2, <<"u", "v">>, fb) ELSE s2
    IN  IF has_flag(f, HasColors)
        THEN AppendAll(s3, <<"r", "g", "b">>, fb) ELSE s3

\* lines 268-288: the vertex layout for a flag word, the normal storage
\* preference and the width of ScalarFloat
VertexStruct(f, disable, fb) ==
    LET s1 == AppendAll(<<>>, <<"x", "y", "z">>, fb)
        s2 == IF ~disable THEN AppendAll(s1, <<"nx", "ny", "nz">>, fb) ELSE s1
        s3 == IF has_flag(f, HasTexcoords)
              THEN AppendAll(s2, <<"u", "v">>, fb) ELSE s2
    IN  IF has_flag(f, HasColors)
        THEN AppendAll(s3, <<"r", "g", "b">>, fb) ELSE s3

\* lines 290-292: the face layout
FaceStruct == AppendAll(<<>>, <<"i0", "i1", "i2">>, SizeofScalarIndex)

\* (ScalarSize) n: the low 32 bits of a size_t
ToScalarSize(n) == n.lo

\* lines 268-300 when every field looked up exists
BuildLayoutOk ==
    /\ m_vertex_struct' = VertexStruct(flags, m_disable_vertex_normals,
                                       scalar_float)
    /\ m_normal_offset' = IF ~m_disable_vertex_normals
                          THEN StructOffset(m_vertex_struct', "nx")
                          ELSE m_normal_offset
    /\ m_texcoord_offset' = IF has_flag(flags, HasTexcoords)
                            THEN StructOffset(m_vertex_struct', "u")
                            ELSE m_texcoord_offset
    /\ m_color_offset' = IF has_flag(flags, HasColors)
                         THEN StructOffset(m_vertex_struct', "r")
                         ELSE m_color_offset
    /\ m_face_struct' = FaceStruct
    /\ m_vertex_size' = StructSize(m_vertex_struct')
    /\ m_vertex_count' = ToScalarSize(vertex_count)
    /\ vertices_len' = (m_vertex_count' + 1) * m_vertex_size'
    /\ m_face_size' = StructSize(m_face_struct')
    /\ m_face_count' = ToScalarSize(face_count)
    /\ faces_len' = (m_face_count' + 1) * m_face_size'
    /\ pc' = "positions" /\ error' = error

\* the fields whose offset lines 275, 281 and 287 look up
OffsetsLookedUp(f, disable) ==
    (IF ~disable THEN {"nx"} ELSE {})
    \cup (IF has_flag(f, HasTexcoords) THEN {"u"} ELSE {})
    \cup (IF has_flag(f, HasColors) THEN {"r"} ELSE {})

\* lines 268-300: build the layouts, record the offsets, allocate
\* (Struct::offset throws for a field the layout does not have)
BuildLayout ==
    /\ pc = "layout"
    /\ LET s == VertexStruct(flags, m_disable_vertex_normals, scalar_float)
       IN  IF \E n \in OffsetsLookedUp(flags, m_disable_vertex_normals) :
                ~StructHas(s, n)
           THEN Fail("NoField") /\ UNCHANGED layout
           ELSE BuildLayoutOk
    /\ UNCHANGED <<inputs, io, header, body_header, m_name, buffers,
                   array_pos, recomputed>>

(* --------------------------- bulk geometry ---------------------------- *)
\* a store of one scalar at byte address a of a buffer
Store(buf, a, v) == [x \in DOMAIN buf \cup {a} |-> IF x = a THEN v ELSE buf[x]]

\* the value a buffer holds at address a (indeterminate when never written)
Load(buf, a) ==
    IF a \in DOMAIN buf THEN buf[a]
    ELSE [g |-> "uninit", idx |-> 0, cv |-> "exact", st |-> "raw"]

\* lines 356/374: the width of the scalars read_helper reads
ReadWidth(dp) == IF dp THEN SizeofDouble ELSE SizeofFloat

\* AdvanceWidth that discards single-precision scalars whatever the flags
AdvanceWidth_SingleOnly(dp) == SizeofFloat

\* lines 401/404: the width of the scalars advance_helper reads
AdvanceWidth(dp) == IF dp THEN SizeofDouble ELSE SizeofFloat

\* lines 357-358, 375-376: bytes read_helper takes from the stream
ReadHelperBytes(dp, n, dim) == n * dim * ReadWidth(dp)

\* lines 402-403, 405-406: bytes advance_helper takes from the stream
AdvanceHelperBytes(dp, n, dim) == n * dim * AdvanceWidth(dp)

\* lines 360-372, 378-390: memcpy when the widths agree, else (float) src[d]
\* or (double) src[d]
Convert(dp, fb) ==
    IF ReadWidth(dp) = fb THEN "exact"
    ELSE IF ReadWidth(dp) > fb THEN "narrowed" ELSE "widened"

\* Mesh::vertex(i): byte address of vertex record i
VertexAddress(i) == i * m_vertex_size

\* lines 362-363, 368-371, 380-381, 386-389: destination of component d of
\* vertex i for a field group at `offset`
ScatterAddress(i, d, offset) == VertexAddress(i) + offset + d * scalar_float

RECURSIVE Scatter(_, _, _)
\* the loops of read_helper from element n on: element n of the array read
\* at c.z goes to component n % dim of vertex n / dim
Scatter(buf, c, n) ==
    IF n >= m_vertex_count * c.dim THEN buf
    ELSE LET e == ElementAt(c.rec, c.z + n * ReadWidth(c.dp), ReadWidth(c.dp))
             v == [g |-> e.g, idx |-> e.idx,
                   cv |-> Convert(c.dp, scalar_float), st |-> "raw"]
         IN  Scatter(Store(buf, ScatterAddress(n \div c.dim, n % c.dim,
                                               c.offset), v),
                     c, n + 1)

\* read_helper(stream, dp, offset, dim) on the buffer, reading at z
read_helper(buf, rec, z, dp, offset, dim) ==
    Scatter(buf, [rec |-> rec, z |-> z, dp |-> dp, offset |-> offset,
                  dim |-> dim], 0)

\* line 302
double_precision == has_flag(flags, DoublePrecision)

\* advance_helper that passes over the data with stream->skip
AdvanceOp_Skip == "skip"

\* lines 395-407: advance_helper reads the data and discards it (the
\* compressed stream has no seek), a sequential read of the ZStream
AdvanceOp == "zread"

\* lines 358, 376: read_helper reads the array from the ZStream
ReadOp == "zread"

\* one array of the vertex data: either stored with read_helper or passed
\* over with advance_helper; a read past the end of the body fails
ReadArray(g, field, dim, store, next) ==
    LET n == IF store THEN ReadHelperBytes(double_precision, m_vertex_count, dim)
             ELSE AdvanceHelperBytes(double_precision, m_vertex_count, dim)
    IN  /\ ops' = Append(ops, IF store THEN ReadOp ELSE AdvanceOp)
        /\ array_pos' = [array_pos EXCEPT ![g] = zpos]
        /\ IF ~CanZRead(ZRec, zpos, n)
           THEN Fail("IOError") /\ UNCHANGED <<zpos, m_vertices>>
           ELSE /\ zpos' = zpos + n
                /\ m_vertices' =
                     IF store
                     THEN read_helper(m_vertices, ZRec, zpos, double_precision,
                                      StructOffset(m_vertex_struct, field), dim)
                     ELSE m_vertices
                /\ pc' = next /\ error' = error

SkipArray(next) ==
    /\ pc' = next
    /\ UNCHANGED <<error, ops, zpos, m_vertices, array_pos>>

\* lines 302-303
ReadPositions ==
    /\ pc = "positions"
    /\ ReadArray("pos", "x", 3, TRUE, "normals")
    /\ UNCHANGED <<inputs, pos, zstream, header, body_header, m_name, layout,
                   m_faces, recomputed>>

\* lines 305-312
ReadNormals ==
    /\ pc = "normals"
    /\ IF has_flag(flags, HasNormals)
       THEN IF m_disable_vertex_normals
            THEN ReadArray("nrm", "x", 3, FALSE, "texcoords")
            ELSE ReadArray("nrm", "nx", 3, TRUE, "texcoords")
       ELSE SkipArray("texcoords")
    /\ UNCHANGED <<inputs, pos, zstream, header, body_header, m_name, layout,
                   m_faces, recomputed>>

\* lines 314-315
ReadTexcoords ==
    /\ pc = "texcoords"
    /\ IF has_flag(flags, HasTexcoords)
       THEN ReadArray("tex", "u", 2, TRUE, "colors")
       ELSE SkipArray("colors")
    /\ UNCHANGED <<inputs, pos, zstream, header, body_header, m_name, layout,
                   m_faces, recomputed>>

\* lines 317-318
ReadColors ==
    /\ pc = "colors"
    /\ IF has_flag(flags, HasColors)
       THEN ReadArray("col", "r", 3, TRUE, "faces")
       ELSE SkipArray("faces")
    /\ UNCHANGED <<inputs, pos, zstream, header, body_header, m_name, layout,
                   m_faces, recomputed>>

\* line 320: the number of bytes read into m_faces
FaceBytes(n) == n * SizeofScalarIndex * 3

\* line 320: stream->read(m_faces.get(), m_face_count * sizeof(ScalarIndex) * 3)
ReadFaces ==
    /\ pc = "faces"
    /\ ops' = Append(ops, "zread")
    /\ array_pos' = [array_pos EXCEPT !["face"] = zpos]
    /\ IF ~CanZRead(ZRec, zpos, FaceBytes(m_face_count))
       THEN Fail("IOError") /\ UNCHANGED <<zpos, m_faces>>
       ELSE /\ zpos' = zpos + FaceBytes(m_face_count)
            /\ m_faces' =
                 [a \in {j * SizeofScalarIndex :
                           j \in 0..(FaceBytes(m_face_count)
                                       \div SizeofScalarIndex - 1)} |->
                    LET e == ElementAt(ZRec, zpos + a, SizeofScalarIndex)
                    IN  [g |-> e.g, idx |-> e.idx, cv |-> "exact",
                         st |-> "raw"]]
            /\ pc' = "post" /\ error' = error
    /\ UNCHANGED <<inputs, pos, zstream, header, body_header, m_name, layout,
                   m_vertices, recomputed>>

(* ---------------------------- post-processing ------------------------- *)
\* Mesh::has_vertex_normals() / has_vertex_texcoords()
has_vertex_normals == m_normal_offset # 0
has_vertex_texcoords == m_texcoord_offset # 0

\* the scalars of a field group of `dim` components at `offset` of vertex i
GroupAddresses(i, offset, dim) ==
    {ScatterAddress(i, d, offset) : d \in 0..(dim - 1)}

\* lines 330-344: the addresses the loop stores to, and the state of the
\* value stored there
PostStores ==
    [pos |-> UNION {GroupAddresses(i, 0, 3) : i \in 0..(m_vertex_count - 1)},
     nrm |-> IF has_vertex_normals
             THEN UNION {GroupAddresses(i, m_normal_offset, 3) :
                           i \in 0..(m_vertex_count - 1)}
             ELSE {},
     tex |-> IF has_vertex_texcoords
             THEN UNION {GroupAddresses(i, m_texcoord_offset, 2) :
                           i \in 0..(m_vertex_count - 1)}
             ELSE {}]

\* lines 329-344: transform positions and normals, store texcoords back
PostProcess ==
    /\ pc = "post"
    /\ LET w == PostStores
       IN  m_vertices' =
             [a \in DOMAIN m_vertices \cup w.pos \cup w.nrm \cup w.tex |->
                IF a \in w.pos THEN [Load(m_vertices, a) EXCEPT !.st = "world"]
                ELSE IF a \in w.nrm
                THEN [Load(m_vertices, a) EXCEPT !.st = "unit"]
                ELSE Load(m_vertices, a)]
    /\ pc' = "recompute"
    /\ UNCHANGED <<inputs, error, io, header, body_header, m_name, layout,
                   m_faces, array_pos, recomputed>>

\* line 346: when the smooth normals are recomputed
RecomputesNormals(f, disable) == ~disable /\ ~has_flag(f, HasNormals)

\* lines 346-347
Recompute ==
    /\ pc = "recompute"
    /\ IF RecomputesNormals(flags, m_disable_vertex_normals)
       THEN /\ recomputed' = recomputed + 1
            /\ m_vertices' =
                 [a \in DOMAIN m_vertices |->
                    IF a \in PostStores.nrm
                    THEN [g |-> "nrm", idx |-> 0, cv |-> "exact",
                          st |-> "computed"]
                    ELSE m_vertices[a]]
       ELSE UNCHANGED <<recomputed, m_vertices>>
    /\ pc' = "attach"
    /\ UNCHANGED <<inputs, error, io, header, body_header, m_name, layout,
                   m_faces, array_pos>>

\* lines 349-353: attach the shape to its emitter / sensor and return
Attach ==
    /\ pc = "attach"
    /\ pc' = "done"
    /\ UNCHANGED <<inputs, error, io, header, body_header, m_name, layout,
                   buffers, array_pos, recomputed>>

Next ==
    \/ Resolve \/ CheckIndex \/ OpenAndReadHeader
    \/ ReadDirectoryCount \/ SeekToEntry
    \/ InstallFilter \/ ReadBodyHeader \/ BuildLayout
    \/ ReadPositions \/ ReadNormals \/ ReadTexcoords \/ ReadColors
    \/ ReadFaces \/ PostProcess \/ Recompute \/ Attach

Spec == Init /\ [][Next]_vars

(* -------------------------------- claims ------------------------------ *)
NumMeshes == Len(file.recs)
Requested == props.shape_index
\* the record the caller asked for (Requested in [0, NumMeshes))
Selected == file.recs[Requested + 1]
Seeks == {"seek", "seek:entry", "skip", "size"}
OpsDone == {ops[j] : j \in 1..Len(ops)}
Finished == pc \in {"done", "failed"}

\* C1: for a well-formed container of N >= 1 meshes, a load that requests an
\* index >= N fails with the out-of-range error and never seeks to a
\* directory entry, never installs the decompression filter and never
\* yields a mesh.
C1_IndexAtCountRejected ==
    (WellFormed(file) /\ props.file_exists /\ Requested >= NumMeshes)
        => /\ "seek:entry" \notin OpsDone
           /\ ~zstream.installed
           /\ pc # "done"
           /\ (pc = "failed" => error = "OutOfRange")

\* C2: for a well-formed container and a requested index k in [0, N), in
\* either directory encoding, the file stream is at offset[k] + 4 when the
\* decompression filter is installed, the load does not fail before that,
\* and for k = 0 no seek, skip or size query has been made.
C2_FilterStartsAfterRecordHeader ==
    (WellFormed(file) /\ props.file_exists
       /\ Requested \in 0..(NumMeshes - 1))
        => /\ zstream.installed
              => zstream.start = RecordStart(file, Requested) + 2 * SizeofShort
           /\ (Requested = 0) => OpsDone \cap Seeks = {}
           /\ pc = "failed" => zstream.installed

\* C2 witness: the filter is installed for the last record of a legacy
\* (version 3) container of several records
C2_Witness ==
    /\ WellFormed(file) /\ file.dir = MTS_FILEFORMAT_VERSION_V3
    /\ NumMeshes >= 2 /\ Requested = NumMeshes - 1
    /\ zstream.installed /\ "seek:entry" \in OpsDone

\* C3 as stated: a load of index k in [0, N) succeeds only if record k's own
\* magic is 0x041C and its version 3 or 4, and the name is read from the
\* body exactly when record k's own version is 4.
C3_SelectedHeaderValidated ==
    (pc = "done" /\ Requested \in 0..(NumMeshes - 1))
        => /\ Selected.magic = MTS_FILEFORMAT_HEADER
           /\ Selected.version \in Versions
           /\ (m_name.src = "stored"
                 <=> Selected.version = MTS_FILEFORMAT_VERSION_V4)

\* C3 amended: the magic and version validated are those of the first
\* record (file offset 0), whatever index is requested: the filter is
\* installed only if they are 0x041C and 3 or 4, a mismatch there fails
\* with BadFormat / UnsupportedVersion, the name is read exactly when the
\* first record's version is 4, and the header of a record k > 0 is skipped
\* without being read.
C3_FirstHeaderValidated ==
    LET first == file.recs[1] IN
    /\ zstream.installed
         => /\ first.magic = MTS_FILEFORMAT_HEADER
            /\ first.version \in Versions
            /\ format = first.magic /\ version = first.version
    /\ (props.file_exists /\ Requested >= 0 /\ Finished
          /\ first.magic # MTS_FILEFORMAT_HEADER) => error = "BadFormat"
    /\ (props.file_exists /\ Requested >= 0 /\ Finished
          /\ first.magic = MTS_FILEFORMAT_HEADER
          /\ first.version \notin Versions) => error = "UnsupportedVersion"
    /\ pc \in {"layout", "done"}
         => (m_name.src = "stored"
               <=> first.version = MTS_FILEFORMAT_VERSION_V4)
    /\ Len(SelectSeq(ops, LAMBDA o : o = "read"))
         <= 2 + (IF Requested # 0 THEN 2 ELSE 0)

\* C3 witness: a load of a record k > 0 whose own magic is wrong succeeds
C3_Witness ==
    /\ pc = "done" /\ Requested \in 1..(NumMeshes - 1)
    /\ Selected.magic # MTS_FILEFORMAT_HEADER

(* ---------------------- claims about the decoding --------------------- *)
\* the stages of the constructor that follow the given one
AfterLayout ==
    {"positions", "normals", "texcoords", "colors", "faces", "post",
     "recompute", "attach", "done"}
AfterNormals == AfterLayout \ {"positions", "normals"}
AfterFaces == {"post", "recompute", "attach", "done"}

\* the values the vertex buffer holds at the field group at `offset`
GroupValues(offset, dim) ==
    [n \in 0..(m_vertex_count * dim - 1) |->
        Load(m_vertices, ScatterAddress(n \div dim, n % dim, offset))]

\* the scalars of the decompressed body from byte z on, read as n scalars of
\* the stored float width
StreamValues(z, n) ==
    [j \in 0..(n - 1) |->
        ElementAt(ZRec, z + j * StoredFloatBytes(flags), StoredFloatBytes(flags))]

\* C4: for a record with HasNormals decoded with normal storage disabled,
\* the normals are passed over by exactly the bytes read_helper would have
\* taken for them (arrays in the order position, normal, texcoord, color,
\* face), so the texcoord, color and face arrays start where they start
\* with normal storage enabled and decode to the values stored there; no
\* normal is written.
C4_SuppressedNormalsConsumeSameBytes ==
    (has_flag(flags, HasNormals) /\ m_disable_vertex_normals
       /\ pc \in AfterNormals)
        => LET n3 == ReadHelperBytes(double_precision, m_vertex_count, 3)
               n2 == ReadHelperBytes(double_precision, m_vertex_count, 2)
               afterNormals == array_pos["pos"] + n3 + n3
               afterTex == afterNormals
                             + (IF has_flag(flags, HasTexcoords) THEN n2 ELSE 0)
               afterCol == afterTex
                             + (IF has_flag(flags, HasColors) THEN n3 ELSE 0)
           IN  /\ array_pos["nrm"] = array_pos["pos"] + n3
               /\ pc = "texcoords" => zpos = afterNormals
               /\ array_pos["tex"] >= 0 => array_pos["tex"] = afterNormals
               /\ array_pos["col"] >= 0 => array_pos["col"] = afterTex
               /\ array_pos["face"] >= 0 => array_pos["face"] = afterCol
               /\ (pc = "post" /\ has_flag(flags, HasTexcoords))
                    => \A j \in 0..(m_vertex_count * 2 - 1) :
                         LET v == GroupValues(m_texcoord_offset, 2)[j]
                             e == StreamValues(afterNormals,
                                               m_vertex_count * 2)[j]
                         IN  v.g = e.g /\ v.idx = e.idx
               /\ (pc = "post" /\ has_flag(flags, HasColors))
                    => \A j \in 0..(m_vertex_count * 3 - 1) :
                         LET v == GroupValues(m_color_offset, 3)[j]
                             e == StreamValues(afterTex, m_vertex_count * 3)[j]
                         IN  v.g = e.g /\ v.idx = e.idx
               /\ pc = "post"
                    => \A a \in DOMAIN m_vertices : m_vertices[a].g # "nrm"

\* C4 witness: a double-precision record with normals, texcoords and
\* colors and two vertices has been decoded with normal storage disabled
C4_Witness ==
    /\ pc = "post" /\ m_disable_vertex_normals
    /\ has_flag(flags, HasNormals) /\ has_flag(flags, HasTexcoords)
    /\ has_flag(flags, HasColors) /\ double_precision
    /\ m_vertex_count = 2 /\ vertex_count.hi = 0

\* the names of the fields of a layout, in order
FieldNames(s) == [j \in 1..Len(s) |-> s[j].name]

RECURSIVE SumSizes(_)
SumSizes(s) == IF s = <<>> THEN 0 ELSE Head(s).size + SumSizes(Tail(s))

\* C5: the vertex layout is x,y,z; then nx,ny,nz iff normal storage is not
\* disabled; then u,v iff HasTexcoords; then r,g,b iff HasColors (so every
\* field whose offset is looked up exists).  Offsets
\* increase strictly without overlap from 0, the record size is the sum of
\* the widths, the recorded group offsets are those of nx, u and r, and
\* without HasTexcoords there is no texcoord field and the presence query
\* is false.
C5_LayoutFollowsFlags ==
    /\ error # "NoField"
    /\ pc \in AfterLayout
        => LET s == m_vertex_struct
               f == ZRec.body.flags
           IN  /\ FieldNames(s) =
                     <<"x", "y", "z">>
                     \o (IF ~props.face_normals THEN <<"nx", "ny", "nz">>
                         ELSE <<>>)
                     \o (IF has_flag(f, HasTexcoords) THEN <<"u", "v">>
                         ELSE <<>>)
                     \o (IF has_flag(f, HasColors) THEN <<"r", "g", "b">>
                         ELSE <<>>)
               /\ s[1].offset = 0
               /\ \A j \in 1..(Len(s) - 1) :
                    /\ s[j].offset < s[j + 1].offset
                    /\ s[j].offset + s[j].size <= s[j + 1].offset
               /\ \A j \in 1..Len(s) : s[j].size = scalar_float
               /\ m_vertex_size = SumSizes(s)
               /\ StructHas(s, "nx") => m_normal_offset = StructOffset(s, "nx")
               /\ StructHas(s, "u") => m_texcoord_offset = StructOffset(s, "u")
               /\ StructHas(s, "r") => m_color_offset = StructOffset(s, "r")
               /\ ~has_flag(f, HasTexcoords)
                    => ~StructHas(s, "u") /\ ~StructHas(s, "v")
                       /\ ~has_vertex_texcoords

\* C5 witness: a layout built for a record without normals and texcoords
\* but with colors, normal storage enabled
C5_Witness ==
    /\ pc = "done" /\ ~m_disable_vertex_normals
    /\ ~has_flag(flags, HasNormals) /\ ~has_flag(flags, HasTexcoords)
    /\ has_flag(flags, HasColors) /\ scalar_float = SizeofDouble

\* C6: recompute_vertex_normals() is called at most once, only after the
\* per-vertex loop, and exactly when normal storage is enabled, the flags
\* lack HasNormals and face-normal mode was requested neither by the
\* face_normals parameter nor by flag 0x0010.
C6_RecomputeUnlessFaceNormals ==
    /\ recomputed <= 1
    /\ recomputed = 1 => pc \in {"attach", "done"}
    /\ pc \in {"attach", "done"}
         => (recomputed = 1
               <=> /\ ~m_disable_vertex_normals
                   /\ ~has_flag(flags, HasNormals)
                   /\ ~props.face_normals
                   /\ ~has_flag(flags, FaceNormals))

\* C7: the face array is consumed as face_count * 3 indices of 4 bytes when
\* vertex_count <= 0xFFFFFFFF and of 8 bytes otherwise, so a successful
\* decode of a well-formed record consumes exactly the bytes of the body as
\* the format description lays it out.
C7_ConsumesWholeBody ==
    (WellFormed(file) /\ pc \in AfterFaces)
        => /\ U64(0, zpos - array_pos["face"])
                = U64Mul(ZRec.body.face_count, 3 * StoredIndexBytes(ZRec.body))
           /\ U64(0, zpos) = BodySize(ZRec)

\* C8 as stated: with shape_index < 0 the load fails with the negative-index
\* error before any existence query, open, read, seek or size query.
C8_NegativeIndexBeforeAnyIO ==
    Requested < 0
        => /\ OpsDone \cap ({"exists", "open", "read"} \cup Seeks) = {}
           /\ pc # "done"
           /\ pc = "failed" => error = "NegativeIndex"

\* C8 amended: with shape_index < 0 the load fails before the file is
\* opened: the only operations made are the resolution of the filename and
\* the file-system existence query, no stream is opened, read, sought or
\* sized, and the error is the negative-index error when the file exists and
\* the not-found error when it does not.
C8_NegativeIndexBeforeOpen ==
    Requested < 0
        => /\ OpsDone \subseteq {"resolve", "exists"}
           /\ pc \in {"start", "index", "failed"}
           /\ pc = "failed"
                => error = IF props.file_exists THEN "NegativeIndex"
                           ELSE "NotFound"

\* C8 witness: a load with a negative index of an existing file has failed
C8_Witness ==
    /\ Requested < 0 /\ props.file_exists
    /\ pc = "failed" /\ error = "NegativeIndex"

\* the vertex indices below a declared count that the model represents:
\* all of them for a count that fits 32 bits, the first lo + 1 otherwise
DeclaredVertices(n) == IF n.hi > 0 THEN 0..n.lo ELSE 0..(n.lo - 1)

\* the field groups of the vertex data: <<group, first field, dimension,
\* flag that announces the array, 0 for the positions>>
FieldGroups ==
    {<<"pos", "x", 3, 0>>, <<"nrm", "nx", 3, HasNormals>>,
     <<"tex", "u", 2, HasTexcoords>>, <<"col", "r", 3, HasColors>>}

\* the conversion the format and the variant call for
ExpectedConversion(f) ==
    IF StoredFloatBytes(f) = scalar_float THEN "exact"
    ELSE IF StoredFloatBytes(f) > scalar_float THEN "narrowed" ELSE "widened"

\* C9: after the bulk reads and before post-processing, for every vertex i
\* below the declared vertex count and every field group present in file and
\* layout, component c of the group in vertex record i holds element
\* i * dim + c of the file's array of that group, converted to the in-memory
\* precision (so no later read has overwritten it).
C9_ScatterRowMajor ==
    (WellFormed(file) /\ pc = "post")
        => \A fg \in FieldGroups :
             ((fg[4] = 0 \/ has_flag(ZRec.body.flags, fg[4]))
                /\ StructHas(m_vertex_struct, fg[2]))
               => \A i \in DeclaredVertices(ZRec.body.vertex_count) :
                    \A c \in 0..(fg[3] - 1) :
                      Load(m_vertices,
                           ScatterAddress(i, c, StructOffset(m_vertex_struct,
                                                             fg[2])))
                        = [g |-> fg[1], idx |-> i * fg[3] + c,
                           cv |-> ExpectedConversion(ZRec.body.flags),
                           st |-> "raw"]

\* C10: the vertex buffer has exactly (vertex_count + 1) * vertex record
\* size bytes and the face buffer (face_count + 1) * face record size
\* bytes, for the counts as declared (64 bits), and every store of the
\* readers and the post-processor falls inside records [0, count).
C10_BuffersHoldDeclaredCounts ==
    (WellFormed(file) /\ pc \in AfterLayout)
        => /\ U64(0, vertices_len)
                = U64Mul(U64Add(ZRec.body.vertex_count, U64(0, 1)),
                         m_vertex_size)
           /\ U64(0, faces_len)
                = U64Mul(U64Add(ZRec.body.face_count, U64(0, 1)), m_face_size)
           /\ \A a \in DOMAIN m_vertices :
                a + scalar_float <= m_vertex_count * m_vertex_size
           /\ \A a \in DOMAIN m_faces :
                a + SizeofScalarIndex <= m_face_count * m_face_size

\* the positions of the operations logged after the ZStream was installed
AfterInstall ==
    {j \in 1..Len(ops) : \E i \in 1..(j - 1) : ops[i] = "zstream"}

\* C11: once the decompression filter is installed, every later stream
\* operation of the load is a sequential read of the filter: no seek, skip
\* or size query follows it and the file stream keeps its position; the
\* filter is installed at most once; and a seek, skip or size query is made
\* only when shape_index # 0.
C11_OnlySequentialReadsAfterFilter ==
    /\ \A j \in AfterInstall : ops[j] = "zread"
    /\ Cardinality({j \in 1..Len(ops) : ops[j] = "zstream"}) <= 1
    /\ zstream.installed <=> "zstream" \in OpsDone
    /\ zstream.installed => pos = zstream.start
    /\ OpsDone \cap Seeks # {} => Requested # 0

\* C11 witness: a record with normals has been decoded to the end with
\* normal storage disabled, so the normals were passed over after the
\* filter was installed
C11_Witness ==
    /\ pc = "done" /\ m_disable_vertex_normals
    /\ has_flag(flags, HasNormals) /\ m_vertex_count > 0
    /\ Cardinality(AfterInstall) >= 4

====
